---- MODULE Spec2Model ----
(***************************************************************************)
(* A model of willy117/Eating: the recommendation fetch                    *)
(* (services/geminiService.ts, fetchRecommendations) and the App component *)
(* that calls it.                                                          *)
(*                                                                         *)
(* A JavaScript string is a sequence of characters; a character is a       *)
(* one-character TLA+ string, or "U+XXXX" for a character outside ASCII.   *)
(* All strings are well-formed Unicode (the service's text is UTF-8).      *)
(* An optional property that is absent is a field missing from the record. *)
(***************************************************************************)
EXTENDS Integers, Sequences, FiniteSets, TLC

VARIABLES
    \* ---- one invocation of fetchRecommendations ----
    pc,            \* "idle", "awaiting" (generateContent pending), "resolved", "rejected"
    args,          \* the arguments: location, category, price, distance
    now,           \* the clock reading that Date.now() returns
    serviceCalls,  \* the generateContent requests issued so far
    serviceOutcome,\* what the service did with the request: "none", "ok" or an error
    response,      \* {} or {the response the service returned}
    matchedChunk,  \* per retained line: the index find() selected in chunks, 0 for undefined
    returned,      \* {} or {the list the promise resolved with}
    thrown,        \* {} or {the error the promise rejected with}
    consoleErrors, \* the errors given to console.error
    \* ---- the App component ----
    mounted,       \* the mount effect has run
    geoSupported,  \* navigator.geolocation exists
    state,         \* the AppState of useState
    geoPending,    \* getCurrentPosition requests not yet called back
    inflight,      \* fetchRecommendations promises not yet settled
    issued,        \* number of fetchRecommendations calls made so far
    shownFrom      \* {} or {the call whose result is state.recommendations}

fetchVars == <<pc, args, now, serviceCalls, serviceOutcome, response, matchedChunk,
               returned, thrown, consoleErrors>>
appVars == <<mounted, geoSupported, state, geoPending, inflight, issued, shownFrom>>
vars == <<fetchVars, appVars>>

(***************************************************************************)
(* Bounds of the model.                                                    *)
(***************************************************************************)
MaxLines == 6
MaxNameLen == 3
MaxChunks == 2
MaxFetches == 3

(***************************************************************************)
(* JavaScript string primitives.                                           *)
(***************************************************************************)
Undefined == <<"<undefined>">>

UpperChars == <<"A", "B", "C", "D", "E", "F", "G", "H", "I", "J", "K", "L", "M",
                "N", "O", "P", "Q", "R", "S", "T", "U", "V", "W", "X", "Y", "Z">>
LowerChars == <<"a", "b", "c", "d", "e", "f", "g", "h", "i", "j", "k", "l", "m",
                "n", "o", "p", "q", "r", "s", "t", "u", "v", "w", "x", "y", "z">>
DigitChars == <<"0", "1", "2", "3", "4", "5", "6", "7", "8", "9">>
HexChars == <<"0", "1", "2", "3", "4", "5", "6", "7", "8", "9",
              "A", "B", "C", "D", "E", "F">>

Range(s) == {s[i] : i \in DOMAIN s}

IsDigit(c) == c \in Range(DigitChars)

\* White space of String.prototype.trim and of the regular expression class \s.
IsWhite(c) == c \in {" ", "\t", "\n", "\r"}

\* s.includes(c) for a one-character c.
IncludesChar(s, c) == \E i \in DOMAIN s : s[i] = c

\* hay.includes(needle)
Includes(hay, needle) ==
    \E off \in 0..(Len(hay) - Len(needle)) :
        SubSeq(hay, off + 1, off + Len(needle)) = needle

\* s.split(sep) for a one-character separator: never empty, "" gives [""].
RECURSIVE Split(_, _)
Split(s, sep) ==
    IF ~IncludesChar(s, sep) THEN <<s>>
    ELSE LET i == CHOOSE k \in DOMAIN s :
                      s[k] = sep /\ \A j \in 1..(k - 1) : s[j] # sep
         IN <<SubSeq(s, 1, i - 1)>> \o Split(SubSeq(s, i + 1, Len(s)), sep)

\* s.trim()
Trim(s) ==
    IF \A i \in DOMAIN s : IsWhite(s[i]) THEN <<>>
    ELSE LET lo == CHOOSE k \in DOMAIN s :
                       ~IsWhite(s[k]) /\ \A j \in 1..(k - 1) : IsWhite(s[j])
             hi == CHOOSE k \in DOMAIN s :
                       ~IsWhite(s[k]) /\ \A j \in (k + 1)..Len(s) : IsWhite(s[j])
         IN SubSeq(s, lo, hi)

\* The number of leading digits (\d+) and of leading white space (\s*) of s.
LeadingDigits(s) ==
    IF \A i \in DOMAIN s : IsDigit(s[i]) THEN Len(s)
    ELSE (CHOOSE k \in DOMAIN s : ~IsDigit(s[k]) /\ \A j \in 1..(k - 1) : IsDigit(s[j])) - 1
LeadingWhite(s) ==
    IF \A i \in DOMAIN s : IsWhite(s[i]) THEN Len(s)
    ELSE (CHOOSE k \in DOMAIN s : ~IsWhite(s[k]) /\ \A j \in 1..(k - 1) : IsWhite(s[j])) - 1

\* s.replace(/^\d+\.\s*/, ''): one match at the start, digits then a period,
\* then as much white space as follows.
StripNumPrefix(s) ==
    LET nd == LeadingDigits(s)
    IN IF nd >= 1 /\ nd < Len(s) /\ s[nd + 1] = "."
       THEN LET rest == SubSeq(s, nd + 2, Len(s))
            IN SubSeq(rest, LeadingWhite(rest) + 1, Len(rest))
       ELSE s

\* s.replace(/\*/g, '')
RemoveAsterisks(s) == SelectSeq(s, LAMBDA c : c # "*")

\* s.toLowerCase()
LowerChar(c) ==
    IF c \in Range(UpperChars)
    THEN LowerChars[CHOOSE i \in DOMAIN UpperChars : UpperChars[i] = c]
    ELSE c
ToLowerCase(s) == [i \in DOMAIN s |-> LowerChar(s[i])]

\* String(n) for an integer-valued number n.
RECURSIVE DigitsOf(_)
DigitsOf(n) ==
    IF n < 10 THEN <<DigitChars[n + 1]>>
    ELSE DigitsOf(n \div 10) \o <<DigitChars[(n % 10) + 1]>>
NumToString(n) == IF n < 0 THEN <<"-">> \o DigitsOf(-n) ELSE DigitsOf(n)

\* The code point of a character that encodeURIComponent escapes.
CodePoint(c) ==
    CASE c = "\t" -> 9
      [] c = "\n" -> 10
      [] c = "\r" -> 13
      [] c = " " -> 32
      [] c = "$" -> 36
      [] c = "," -> 44
      [] c = "/" -> 47
      [] c = "|" -> 124
      [] c = "U+672A" -> 26410
      [] c = "U+77E5" -> 30693
      [] c = "U+9910" -> 39184
      [] c = "U+5EF3" -> 24307

Utf8Bytes(cp) ==
    IF cp < 128 THEN <<cp>>
    ELSE IF cp < 2048 THEN <<192 + (cp \div 64), 128 + (cp % 64)>>
    ELSE <<224 + (cp \div 4096), 128 + ((cp \div 64) % 64), 128 + (cp % 64)>>

PercentByte(b) == <<"%", HexChars[(b \div 16) + 1], HexChars[(b % 16) + 1]>>

RECURSIVE Flatten(_)
Flatten(ss) == IF ss = <<>> THEN <<>> ELSE Head(ss) \o Flatten(Tail(ss))

IsUnreserved(c) ==
    \/ c \in Range(UpperChars) \cup Range(LowerChars) \cup Range(DigitChars)
    \/ c \in {"-", "_", ".", "!", "~", "*", "'", "(", ")"}

\* encodeURIComponent(s)
EncodeChar(c) ==
    IF IsUnreserved(c) THEN <<c>>
    ELSE LET bytes == Utf8Bytes(CodePoint(c))
         IN Flatten([i \in DOMAIN bytes |-> PercentByte(bytes[i])])
encodeURIComponent(s) == Flatten([i \in DOMAIN s |-> EncodeChar(s[i])])

(***************************************************************************)
(* fetchRecommendations: the parsing of the response.                      *)
(***************************************************************************)
MaxResults == 5

DefaultName == <<"U+672A", "U+77E5", "U+9910", "U+5EF3">>
DefaultCuisine == <<"U+7F8E", "U+98DF">>
DefaultPrice == <<"$">>
DefaultRating == <<"N", "/", "A">>
DefaultDescription == <<"U+66AB", "U+7121", "U+63CF", "U+8FF0", "U+3002">>

MapSearchPrefix ==
    <<"h", "t", "t", "p", "s", ":", "/", "/", "w", "w", "w", ".", "g", "o", "o",
      "g", "l", "e", ".", "c", "o", "m", "/", "m", "a", "p", "s", "/", "s", "e",
      "a", "r", "c", "h", "/", "?", "a", "p", "i", "=", "1", "&", "q", "u", "e",
      "r", "y", "=">>

Min(a, b) == IF a < b THEN a ELSE b

\* A value that the || operator and an if test take for false.
Falsy(v) == v = Undefined \/ v = <<>>

\* v || d
OrDefault_Nullish(v, d) == IF v = Undefined THEN d ELSE v
OrDefault(v, d) == IF Falsy(v) THEN d ELSE v

\* parts[i], zero-based
Part(parts, i) == IF (i + 1) \in DOMAIN parts THEN parts[i + 1] ELSE Undefined

\* response.text || ""
ResponseText(resp) ==
    IF "text" \in DOMAIN resp THEN OrDefault(resp.text, <<>>) ELSE <<>>

\* response.candidates?.[0]?.groundingMetadata?.groundingChunks || []
ResponseChunks(resp) ==
    IF /\ "candidates" \in DOMAIN resp
       /\ resp.candidates # <<>>
       /\ "groundingMetadata" \in DOMAIN resp.candidates[1]
       /\ "groundingChunks" \in DOMAIN resp.candidates[1].groundingMetadata
    THEN resp.candidates[1].groundingMetadata.groundingChunks
    ELSE <<>>

\* text.split('\n').filter(line => line.includes('|'))
QualifyingLines(text) ==
    SelectSeq(Split(text, "\n"), LAMBDA line : IncludesChar(line, "|"))

\* lines.slice(0, 5)
FirstFive_All(lines) == lines
FirstFive(lines) == SubSeq(lines, 1, Min(MaxResults, Len(lines)))

\* line.split('|').map(s => s.trim())
Parts(line) == LET raw == Split(line, "|") IN [i \in DOMAIN raw |-> Trim(raw[i])]

\* parts[0]?.replace(/^\d+\.\s*/, '').replace(/\*/g, '') || "..."
NameOf(parts) ==
    LET p0 == Part(parts, 0)
    IN OrDefault(IF p0 = Undefined THEN Undefined
                 ELSE RemoveAsterisks(StripNumPrefix(p0)),
                 DefaultName)

\* c.web?.title, c.maps?.title, c.web?.uri, c.maps?.uri
WebTitle(c) ==
    IF "web" \in DOMAIN c /\ "title" \in DOMAIN c.web THEN c.web.title ELSE Undefined
MapsTitle(c) ==
    IF "maps" \in DOMAIN c /\ "title" \in DOMAIN c.maps THEN c.maps.title ELSE Undefined
WebUri(c) ==
    IF "web" \in DOMAIN c /\ "uri" \in DOMAIN c.web THEN c.web.uri ELSE Undefined
MapsUri(c) ==
    IF "maps" \in DOMAIN c /\ "uri" \in DOMAIN c.maps THEN c.maps.uri ELSE Undefined

\* title?.toLowerCase().includes(name.toLowerCase())
TitleMatches_CaseSensitive(title, name) == title # Undefined /\ Includes(title, name)
TitleMatches(title, name) ==
    title # Undefined /\ Includes(ToLowerCase(title), ToLowerCase(name))

ChunkMatches(c, name) ==
    TitleMatches(WebTitle(c), name) \/ TitleMatches(MapsTitle(c), name)

\* chunks.find(...): the index of the first chunk that matches, 0 for undefined.
FindChunk(chunks, name) ==
    IF \E i \in DOMAIN chunks : ChunkMatches(chunks[i], name)
    THEN CHOOSE i \in DOMAIN chunks :
             /\ ChunkMatches(chunks[i], name)
             /\ \A j \in 1..(i - 1) : ~ChunkMatches(chunks[j], name)
    ELSE 0

\* let mapUri = ""; if (matchedChunk) { maps.uri, else web.uri }
GroundedUri_WebFirst(chunks, k) ==
    IF k = 0 THEN <<>>
    ELSE IF ~Falsy(WebUri(chunks[k])) THEN WebUri(chunks[k])
    ELSE IF ~Falsy(MapsUri(chunks[k])) THEN MapsUri(chunks[k])
    ELSE <<>>
GroundedUri(chunks, k) ==
    IF k = 0 THEN <<>>
    ELSE IF ~Falsy(MapsUri(chunks[k])) THEN MapsUri(chunks[k])
    ELSE IF ~Falsy(WebUri(chunks[k])) THEN WebUri(chunks[k])
    ELSE <<>>

\* `https://www.google.com/maps/search/?api=1&query=${encodeURIComponent(...)}`
FallbackUri(name, loc) ==
    MapSearchPrefix \o
    encodeURIComponent(name \o <<" ">> \o NumToString(loc.lat) \o <<",">>
                       \o NumToString(loc.lng))

\* if (!mapUri) mapUri = the fallback
MapUri_NoFallback(grounded, name, loc) == grounded
MapUri(grounded, name, loc) ==
    IF Falsy(grounded) THEN FallbackUri(name, loc) ELSE grounded

\* `rest-${index}-${Date.now()}`
RestaurantId(index, time) ==
    <<"r", "e", "s", "t", "-">> \o NumToString(index) \o <<"-">> \o NumToString(time)

\* The body of the map callback.
ParseLine(line, index, chunks, loc, time) ==
    LET parts == Parts(line)
        name == NameOf(parts)
    IN [id |-> RestaurantId(index, time),
        name |-> name,
        cuisine |-> OrDefault(Part(parts, 1), DefaultCuisine),
        priceLevel |-> OrDefault(Part(parts, 2), DefaultPrice),
        rating |-> OrDefault(Part(parts, 3), DefaultRating),
        description |-> OrDefault(Part(parts, 4), DefaultDescription),
        mapUri |-> MapUri(GroundedUri(chunks, FindChunk(chunks, name)), name, loc)]

\* The lines the map callback runs on.
RetainedLines(resp) == FirstFive(QualifyingLines(ResponseText(resp)))

\* The list fetchRecommendations resolves with.
Restaurants(resp, loc, time) ==
    LET lines == RetainedLines(resp)
    IN [i \in DOMAIN lines |->
            ParseLine(lines[i], i - 1, ResponseChunks(resp), loc, time)]

\* The matchedChunk local of each run of the map callback.
MatchedChunks(resp) ==
    LET lines == RetainedLines(resp)
    IN [i \in DOMAIN lines |->
            FindChunk(ResponseChunks(resp), NameOf(Parts(lines[i])))]

\* The prompt and the retrieval configuration given to generateContent.
Request(a) ==
    [model |-> "gemini-2.5-flash",
     lat |-> a.location.lat,
     lng |-> a.location.lng,
     cuisine |-> IF a.category = "anything" THEN "Any popular food" ELSE a.category,
     budget |-> a.price,
     maxDistance |-> a.distance,
     latLng |-> [latitude |-> a.location.lat, longitude |-> a.location.lng]]

(***************************************************************************)
(* The inputs: arguments, clock readings, and the responses the service    *)
(* may give.  A text is built from lines and a line from fields, so that   *)
(* texts of more than five qualifying lines and lines of up to six fields  *)
(* occur.                                                                  *)
(***************************************************************************)
SeqsUpTo(S, n) == UNION {[1..k -> S] : k \in 0..n}

RECURSIVE Join(_, _)
Join(ss, sep) ==
    IF ss = <<>> THEN <<>>
    ELSE IF Len(ss) = 1 THEN ss[1]
    ELSE ss[1] \o sep \o Join(Tail(ss), sep)

FetchArgs ==
    {[location |-> [lat |-> 25, lng |-> 121], category |-> "anything",
      price |-> "MODERATE", distance |-> "WALKABLE"],
     [location |-> [lat |-> -33, lng |-> 0], category |-> "ramen",
      price |-> "MODERATE", distance |-> "WALKABLE"]}

Times == {1024}

ServiceErrors == {"network error", "quota exceeded"}

\* Whole lines, some without a pipe.
LinePalette == {<<"a", "|">>, <<"A", "|", "b">>, <<"x">>}
TextsLines == {Join(ls, <<"\n">>) : ls \in SeqsUpTo(LinePalette, MaxLines)}

\* A first field of every shape, followed by the rest of a line.
NameAlphabet == {"1", ".", " ", "*", "a"}
Tails == {<<"|">>,
          <<"|", "|", "|", "|">>,
          <<" ", "|", " ", "|", "x">>,
          <<"|", " ", "b", " ", "|", "$", "$", "|", " ", "4", "|", "d", " ", "|", "e">>}
TextsNames == {n \o t : n \in SeqsUpTo(NameAlphabet, MaxNameLen), t \in Tails}

\* Texts whose names the grounding chunks below match or do not match.
TextsGround == {<<"a", "|">>, <<"A", "|">>, <<"a", "b", "|">>, <<"*", "|">>, <<"a", "|", "\n", "B", "|">>,
                <<"*", "*", "1", ".", " ", "a", "*", "*", " ", "|", " ", "b">>}

ChunkPalette ==
    {[maps |-> [title |-> <<"A", "b">>, uri |-> <<"M", "1">>]],
     [web |-> [title |-> <<"a">>, uri |-> <<"W", "2">>]],
     [maps |-> [title |-> <<"b">>, uri |-> <<"M", "3">>]],
     [web |-> [title |-> <<"x", "a">>, uri |-> <<"W", "4">>],
      maps |-> [title |-> <<"c">>, uri |-> <<"M", "4">>]],
     [maps |-> [title |-> <<"A">>]],
     [maps |-> [title |-> <<"a">>, uri |-> <<>>], web |-> [uri |-> <<"W", "6">>]],
     [web |-> [uri |-> <<"W", "7">>]],
     [maps |-> [title |-> <<>>, uri |-> <<"M", "8">>]],
     [retrievedContext |-> [title |-> <<"a">>, uri |-> <<"R", "9">>]]}
ChunkLists == SeqsUpTo(ChunkPalette, MaxChunks)
FewChunkLists ==
    {<<>>,
     <<[maps |-> [title |-> <<"A">>]],
       [web |-> [title |-> <<" ", "a">>, uri |-> <<"W", "4">>],
        maps |-> [title |-> <<"1", ".">>, uri |-> <<"M", "4">>]]>>}

WithChunks(cs) == <<[groundingMetadata |-> [groundingChunks |-> cs]]>>

\* Responses without a text, without candidates or without grounding chunks.
PartialResponses ==
    {[modelVersion |-> "gemini-2.5-flash"],
     [modelVersion |-> "gemini-2.5-flash", text |-> <<>>],
     [modelVersion |-> "gemini-2.5-flash",
      candidates |-> WithChunks(<<[web |-> [title |-> <<"a">>, uri |-> <<"W", "2">>]]>>)]}
    \cup UNION {{[modelVersion |-> "gemini-2.5-flash", text |-> t],
                 [modelVersion |-> "gemini-2.5-flash", text |-> t, candidates |-> <<>>],
                 [modelVersion |-> "gemini-2.5-flash", text |-> t,
                  candidates |-> <<[finishReason |-> "STOP"]>>],
                 [modelVersion |-> "gemini-2.5-flash", text |-> t,
                  candidates |-> <<[groundingMetadata |-> [webSearchQueries |-> <<>>]]>>]}
                : t \in TextsGround}

\* The examples of the specification: two lines of five fields and no grounding
\* chunk, and a title that contains the name in another case.
ExampleResponses ==
    {[modelVersion |-> "gemini-2.5-flash",
      text |-> <<"a", " ", "b", " ", "|", " ", "c", " ", "|", " ", "$", "$", " ", "|", " ",
                 "4", ".", "5", " ", "|", " ", "d", ".", "\n",
                 "x", " ", "y", " ", "|", " ", "z", " ", "|", " ", "$", "$", "$", " ", "|",
                 " ", "4", ".", "0", " ", "|", " ", "w", ".">>,
      candidates |-> WithChunks(<<>>)],
     [modelVersion |-> "gemini-2.5-flash",
      text |-> <<"d", "i", "n", " ", "t", "a", "i", " ", "f", "u", "n", "g", " ", "|", " ",
                 "n", "o", "o", "d", "l", "e", "s">>,
      candidates |->
          WithChunks(<<[maps |-> [title |-> <<"T", "a", "i", "p", "e", "i">>,
                                  uri |-> <<"U", "0">>]],
                       [maps |-> [title |-> <<"D", "i", "n", " ", "T", "a", "i", " ", "F",
                                              "u", "n", "g", " ", "T", "a", "i", "p", "e",
                                              "i">>,
                                  uri |-> <<"U", "1">>]]>>)]}

Responses ==
    PartialResponses
    \cup ExampleResponses
    \cup {[modelVersion |-> "gemini-2.5-flash", text |-> t, candidates |-> WithChunks(cs)]
          : t \in TextsLines, cs \in {<<>>}}
    \cup {[modelVersion |-> "gemini-2.5-flash", text |-> t, candidates |-> WithChunks(cs)]
          : t \in TextsNames, cs \in FewChunkLists}
    \cup {[modelVersion |-> "gemini-2.5-flash", text |-> t, candidates |-> WithChunks(cs)]
          : t \in TextsGround, cs \in ChunkLists}

(***************************************************************************)
(* fetchRecommendations: one invocation.                                   *)
(***************************************************************************)
FetchIdle ==
    /\ pc = "idle"
    /\ serviceCalls = <<>>
    /\ serviceOutcome = "none"
    /\ response = {}
    /\ matchedChunk = <<>>
    /\ returned = {}
    /\ thrown = {}
    /\ consoleErrors = <<>>

\* const response = await ai.models.generateContent({...})
Call ==
    /\ pc = "idle"
    /\ serviceCalls' = Append(serviceCalls, Request(args))
    /\ pc' = "awaiting"
    /\ UNCHANGED <<args, now, serviceOutcome, response, matchedChunk, returned,
                   thrown, consoleErrors, appVars>>

\* The await resumes with a response: parse it and return the list.
ServiceSucceeds(resp) ==
    /\ pc = "awaiting"
    /\ serviceOutcome' = "ok"
    /\ response' = {resp}
    /\ matchedChunk' = MatchedChunks(resp)
    /\ returned' = {Restaurants(resp, args.location, now)}
    /\ pc' = "resolved"
    /\ UNCHANGED <<args, now, serviceCalls, thrown, consoleErrors, appVars>>

\* The await throws: catch (error) { console.error(..., error); throw error; }
ServiceFails_Swallow(e) ==
    /\ pc = "awaiting"
    /\ serviceOutcome' = e
    /\ consoleErrors' = Append(consoleErrors, e)
    /\ returned' = {<<>>}
    /\ pc' = "resolved"
    /\ UNCHANGED <<args, now, serviceCalls, response, matchedChunk, thrown, appVars>>
ServiceFails(e) ==
    /\ pc = "awaiting"
    /\ serviceOutcome' = e
    /\ consoleErrors' = Append(consoleErrors, e)
    /\ thrown' = {e}
    /\ pc' = "rejected"
    /\ UNCHANGED <<args, now, serviceCalls, response, matchedChunk, returned, appVars>>

FetchInit == FetchIdle /\ args \in FetchArgs /\ now \in Times

FetchNext ==
    \/ Call
    \/ \E resp \in Responses : ServiceSucceeds(resp)
    \/ \E e \in ServiceErrors : ServiceFails(e)

(***************************************************************************)
(* The App component.  A handler reads the state of the latest render;     *)
(* React renders after every event, so that is the current state.          *)
(* handleSearch is called from nowhere and is no action of the model.      *)
(***************************************************************************)
Null == "null"
NullLocation == [null |-> TRUE]

Categories == {"anything", "ramen"}
Prices == {"MODERATE", "EXPENSIVE"}
Distances == {"WALKABLE", "DRIVING"}
Positions == {[lat |-> 25, lng |-> 121]}
GeoErrorCodes == {1, 2, 3}

\* What the service answers the App: two records, no qualifying line, or a failure.
AppResponses ==
    {[modelVersion |-> "gemini-2.5-flash", text |-> <<"a", "|", "\n", "b", "|">>],
     [modelVersion |-> "gemini-2.5-flash", text |-> <<"x">>]}

\* useState<AppState>({...})
InitialState ==
    [location |-> NullLocation,
     locationError |-> Null,
     selectedCategory |-> Null,
     selectedPrice |-> "MODERATE",
     selectedDistance |-> "WALKABLE",
     isLoading |-> FALSE,
     recommendations |-> <<>>,
     error |-> Null]

AppIdle ==
    /\ mounted = FALSE
    /\ state = InitialState
    /\ geoPending = 0
    /\ inflight = {}
    /\ issued = 0
    /\ shownFrom = {}

\* The switch on error.code in the error callback of getCurrentPosition.
LocationErrorMsg(code) ==
    CASE code = 1 -> "permission denied"
      [] code = 2 -> "position unavailable"
      [] code = 3 -> "timeout"
      [] OTHER -> "cannot get location"

\* getLocation()
GetLocation ==
    IF ~geoSupported
    THEN /\ state' = [state EXCEPT !.isLoading = FALSE,
                                   !.locationError = "geolocation unsupported"]
         /\ UNCHANGED geoPending
    ELSE /\ state' = [state EXCEPT !.isLoading = TRUE, !.locationError = Null]
         /\ geoPending' = geoPending + 1

\* useEffect(() => { getLocation(); }, [getLocation])
MountEffect ==
    /\ ~mounted
    /\ mounted' = TRUE
    /\ GetLocation
    /\ UNCHANGED <<geoSupported, inflight, issued, shownFrom, fetchVars>>

\* The retry button of the location error banner, rendered when
\* state.locationError is set.  (The Header is given getLocation too; when it
\* offers it is not in the source, and no other retry is modelled.)
RetryLocation ==
    /\ mounted
    /\ state.locationError # Null
    /\ GetLocation
    /\ UNCHANGED <<mounted, geoSupported, inflight, issued, shownFrom, fetchVars>>

\* The success callback of getCurrentPosition.
GeoSuccess(pos) ==
    /\ geoPending > 0
    /\ geoPending' = geoPending - 1
    /\ state' = [state EXCEPT !.isLoading = FALSE, !.location = pos]
    /\ UNCHANGED <<mounted, geoSupported, inflight, issued, shownFrom, fetchVars>>

\* The error callback of getCurrentPosition.
GeoError(code) ==
    /\ geoPending > 0
    /\ geoPending' = geoPending - 1
    /\ state' = [state EXCEPT !.isLoading = FALSE,
                              !.locationError = LocationErrorMsg(code)]
    /\ UNCHANGED <<mounted, geoSupported, inflight, issued, shownFrom, fetchVars>>

\* handleCategorySelect(id)
HandleCategorySelect(id) ==
    IF state.location # NullLocation
    THEN /\ issued < MaxFetches
         /\ state' = [state EXCEPT !.selectedCategory = id,
                                   !.isLoading = TRUE,
                                   !.error = Null,
                                   !.recommendations = <<>>]
         /\ issued' = issued + 1
         /\ inflight' = inflight \cup
                {[id |-> issued + 1,
                  args |-> [location |-> state.location,
                            category |-> id,
                            price |-> state.selectedPrice,
                            distance |-> state.selectedDistance]]}
         /\ shownFrom' = {}
    ELSE /\ state' = [state EXCEPT !.selectedCategory = id]
         /\ UNCHANGED <<inflight, issued, shownFrom>>

\* CategoryGrid onSelect
CategoryClick(id) ==
    /\ mounted
    /\ HandleCategorySelect(id)
    /\ UNCHANGED <<mounted, geoSupported, geoPending, fetchVars>>

\* The retry button of the error state.
RetryClick ==
    /\ mounted
    /\ state.error # Null
    /\ state.selectedCategory # Null
    /\ HandleCategorySelect(state.selectedCategory)
    /\ UNCHANGED <<mounted, geoSupported, geoPending, fetchVars>>

\* Filters onPriceChange
PriceChange(p) ==
    /\ mounted
    /\ p # state.selectedPrice
    /\ state' = [state EXCEPT !.selectedPrice = p]
    /\ UNCHANGED <<mounted, geoSupported, geoPending, inflight, issued, shownFrom, fetchVars>>

\* Filters onDistanceChange
DistanceChange(d) ==
    /\ mounted
    /\ d # state.selectedDistance
    /\ state' = [state EXCEPT !.selectedDistance = d]
    /\ UNCHANGED <<mounted, geoSupported, geoPending, inflight, issued, shownFrom, fetchVars>>

\* The reset button, rendered when !isLoading && recommendations.length > 0.
ResetClick ==
    /\ mounted
    /\ ~state.isLoading
    /\ state.recommendations # <<>>
    /\ state' = [state EXCEPT !.selectedCategory = Null, !.recommendations = <<>>]
    /\ shownFrom' = {}
    /\ UNCHANGED <<mounted, geoSupported, geoPending, inflight, issued, fetchVars>>

\* .then(results => setState(...)) of a call in flight
FetchResolved(call, resp) ==
    /\ call \in inflight
    /\ inflight' = inflight \ {call}
    /\ state' = [state EXCEPT !.isLoading = FALSE,
                              !.recommendations =
                                  Restaurants(resp, call.args.location, now)]
    /\ shownFrom' = {call}
    /\ UNCHANGED <<mounted, geoSupported, geoPending, issued, fetchVars>>

\* .catch(() => setState(...)) of a call in flight
FetchRejected(call) ==
    /\ call \in inflight
    /\ inflight' = inflight \ {call}
    /\ state' = [state EXCEPT !.isLoading = FALSE, !.error = "AI search failed"]
    /\ UNCHANGED <<mounted, geoSupported, geoPending, issued, shownFrom, fetchVars>>

AppInit == AppIdle /\ geoSupported \in BOOLEAN

AppNext ==
    \/ MountEffect
    \/ RetryLocation
    \/ \E pos \in Positions : GeoSuccess(pos)
    \/ \E code \in GeoErrorCodes : GeoError(code)
    \/ \E id \in Categories : CategoryClick(id)
    \/ RetryClick
    \/ \E p \in Prices : PriceChange(p)
    \/ \E d \in Distances : DistanceChange(d)
    \/ ResetClick
    \/ \E call \in inflight, resp \in AppResponses : FetchResolved(call, resp)
    \/ \E call \in inflight : FetchRejected(call)

(***************************************************************************)
(* The specifications: one invocation of fetchRecommendations, and the App.*)
(***************************************************************************)
Init == FetchInit /\ AppIdle /\ geoSupported = TRUE
Next == FetchNext
Spec == Init /\ [][Next]_vars

InitApp == AppInit /\ FetchIdle /\ args \in {CHOOSE a \in FetchArgs : TRUE} /\ now = 7
NextApp == AppNext
SpecApp == InitApp /\ [][NextApp]_vars

(***************************************************************************)
(* What the claims speak of, stated from the text of the response and not  *)
(* from the parser.                                                        *)
(***************************************************************************)
Resolved == pc = "resolved"
TheResponse == CHOOSE r \in response : TRUE
TheResult == CHOOSE l \in returned : TRUE
TheText == IF "text" \in DOMAIN TheResponse THEN TheResponse.text ELSE <<>>
TheChunks == ResponseChunks(TheResponse)

\* The positions at which a line of t starts, and the line that starts at st.
LineStarts(t) == {1} \cup {i + 1 : i \in {j \in DOMAIN t : t[j] = "\n"}}
LineFrom(t, st) ==
    LET stops == {j \in st..Len(t) : t[j] = "\n"}
        end == IF stops = {} THEN Len(t) + 1
               ELSE CHOOSE j \in stops : \A k \in stops : j <= k
    IN SubSeq(t, st, end - 1)
PipeLineStarts(t) == {st \in LineStarts(t) : "|" \in Range(LineFrom(t, st))}
\* The i-th line of t that holds a pipe, i from 1.
PipeLine(t, i) ==
    LineFrom(t, CHOOSE st \in PipeLineStarts(t) :
                    Cardinality({u \in PipeLineStarts(t) : u < st}) = i - 1)

\* The k-th field of a line, k from 0, untrimmed; Undefined when the line has fewer.
PipesOf(line) == {j \in DOMAIN line : line[j] = "|"}
FieldOf(line, k) ==
    LET before == IF k = 0 THEN 0
                  ELSE CHOOSE p \in PipesOf(line) :
                           Cardinality({q \in PipesOf(line) : q < p}) = k - 1
        after == IF k = Cardinality(PipesOf(line)) THEN Len(line) + 1
                 ELSE CHOOSE p \in PipesOf(line) :
                          Cardinality({q \in PipesOf(line) : q < p}) = k
    IN IF k > Cardinality(PipesOf(line)) THEN Undefined
       ELSE SubSeq(line, before + 1, after - 1)

\* u is s without the white space around it.
IsTrimOf(u, s) ==
    \E lo \in 1..(Len(s) + 1), hi \in 0..Len(s) :
        /\ u = SubSeq(s, lo, hi)
        /\ \A j \in (1..(lo - 1)) \cup ((hi + 1)..Len(s)) : IsWhite(s[j])
        /\ u # <<>> => ~IsWhite(u[1]) /\ ~IsWhite(u[Len(u)])

\* The value of a record field is the field of the line at position k, trimmed,
\* and the default when the line has no such field or the field is empty.
FieldOrDefault(value, line, k, default) ==
    IF FieldOf(line, k) = Undefined \/ IsTrimOf(<<>>, FieldOf(line, k))
    THEN value = default
    ELSE IsTrimOf(value, FieldOf(line, k))

ChunkMatchesExactly(c, name) ==
    \E src \in {"web", "maps"} :
        src \in DOMAIN c /\ "title" \in DOMAIN c[src] /\ Includes(c[src].title, name)

\* Letters equal up to case.
SameLetter(a, b) ==
    a = b \/ \E k \in DOMAIN UpperChars : {a, b} = {UpperChars[k], LowerChars[k]}
ContainsIgnoringCase(title, name) ==
    \E off \in 0..(Len(title) - Len(name)) :
        \A i \in 1..Len(name) : SameLetter(title[off + i], name[i])
TitleOfSourceContains(c, name) ==
    \E src \in {"web", "maps"} :
        /\ src \in DOMAIN c
        /\ "title" \in DOMAIN c[src]
        /\ ContainsIgnoringCase(c[src].title, name)
\* The first chunk in list order with such a title, 0 when there is none.
FirstChunkFor(name) ==
    IF \E j \in DOMAIN TheChunks : TitleOfSourceContains(TheChunks[j], name)
    THEN CHOOSE j \in DOMAIN TheChunks :
             /\ TitleOfSourceContains(TheChunks[j], name)
             /\ \A h \in 1..(j - 1) : ~TitleOfSourceContains(TheChunks[h], name)
    ELSE 0

HasUri(c, src) == src \in DOMAIN c /\ "uri" \in DOMAIN c[src] /\ c[src].uri # <<>>

\* s begins with digits followed by a period.
BeginsWithNumbering(s) ==
    \E n \in 1..(Len(s) - 1) : (\A j \in 1..n : IsDigit(s[j])) /\ s[n + 1] = "."

(***************************************************************************)
(* The claims about fetchRecommendations, checked under Spec.              *)
(***************************************************************************)

\* C1: a successful response yields exactly min(5, q) records, q the number of
\* lines of the text that hold a pipe, and the i-th record is built from the
\* i-th such line.
C1_CountAndOrder ==
    /\ serviceOutcome = "ok" => Resolved
    /\ Resolved =>
        /\ Len(TheResult) = Min(5, Cardinality(PipeLineStarts(TheText)))
        /\ \A i \in DOMAIN TheResult :
               TheResult[i] = ParseLine(PipeLine(TheText, i), i - 1, TheChunks,
                                        args.location, now)

\* C1 witness: more than five lines hold a pipe and five records are returned.
C1_Witness ==
    /\ Resolved
    /\ Cardinality(PipeLineStarts(TheText)) > 5
    /\ Len(TheResult) = 5

\* C2: every returned record has a non-empty mapUri.
C2_MapUriNonEmpty ==
    Resolved => \A i \in DOMAIN TheResult : Len(TheResult[i].mapUri) > 0

\* C2 witness: a record whose matched chunk has no URI at all.
C2_Witness ==
    /\ Resolved
    /\ \E i \in DOMAIN TheResult :
           /\ matchedChunk[i] # 0
           /\ ~HasUri(TheChunks[matchedChunk[i]], "maps")
           /\ ~HasUri(TheChunks[matchedChunk[i]], "web")
           /\ TheResult[i].mapUri # <<>>

\* C3 as claimed: a successful response always resolves, and every field of a
\* record, the name included, is the trimmed field at its position or, when
\* that is absent or empty, its default.
C3_AsClaimed ==
    /\ serviceOutcome = "ok" => Resolved
    /\ Resolved =>
        \A i \in DOMAIN TheResult :
            LET line == PipeLine(TheText, i)
                r == TheResult[i]
            IN /\ FieldOrDefault(r.name, line, 0, DefaultName)
               /\ FieldOrDefault(r.cuisine, line, 1, DefaultCuisine)
               /\ FieldOrDefault(r.priceLevel, line, 2, DefaultPrice)
               /\ FieldOrDefault(r.rating, line, 3, DefaultRating)
               /\ FieldOrDefault(r.description, line, 4, DefaultDescription)

\* C3 as amended: a successful response always resolves; cuisine, priceLevel,
\* rating and description are the trimmed field at their position or, when
\* that is absent or empty, their default; the name is the trimmed first
\* field after the name cleanup or, when nothing remains of it, its default;
\* no field of a record is empty.
C3_TotalWithDefaults ==
    /\ serviceOutcome = "ok" => Resolved
    /\ Resolved =>
        \A i \in DOMAIN TheResult :
            LET line == PipeLine(TheText, i)
                r == TheResult[i]
            IN /\ \E u \in {SubSeq(FieldOf(line, 0), lo, hi) :
                                lo \in 1..(Len(FieldOf(line, 0)) + 1),
                                hi \in 0..Len(FieldOf(line, 0))} :
                      /\ IsTrimOf(u, FieldOf(line, 0))
                      /\ r.name = IF RemoveAsterisks(StripNumPrefix(u)) = <<>>
                                  THEN DefaultName
                                  ELSE RemoveAsterisks(StripNumPrefix(u))
               /\ FieldOrDefault(r.cuisine, line, 1, DefaultCuisine)
               /\ FieldOrDefault(r.priceLevel, line, 2, DefaultPrice)
               /\ FieldOrDefault(r.rating, line, 3, DefaultRating)
               /\ FieldOrDefault(r.description, line, 4, DefaultDescription)
               /\ <<>> \notin {r.name, r.cuisine, r.priceLevel, r.rating, r.description}

\* C3 witness: a line of fewer than five fields, one of them empty, whose
\* first field the cleanup changes.
C3_Witness ==
    /\ Resolved
    /\ \E i \in DOMAIN TheResult :
           LET line == PipeLine(TheText, i)
           IN /\ FieldOf(line, 4) = Undefined
              /\ FieldOf(line, 1) # Undefined /\ IsTrimOf(<<>>, FieldOf(line, 1))
              /\ TheResult[i].cuisine = DefaultCuisine
              /\ TheResult[i].description = DefaultDescription
              /\ TheResult[i].name # DefaultName
              /\ ~IsTrimOf(TheResult[i].name, FieldOf(line, 0))

\* C4: at most one service call is ever issued; when it fails the invocation
\* rejects with that same error, returns nothing, and has logged the error once.
C4_FailurePropagates ==
    /\ Len(serviceCalls) <= 1
    /\ pc # "idle" => serviceCalls = <<Request(args)>>
    /\ serviceOutcome \notin {"none", "ok"} =>
           /\ pc = "rejected"
           /\ thrown = {serviceOutcome}
           /\ returned = {}
           /\ consoleErrors = <<serviceOutcome>>
    /\ serviceOutcome \in {"none", "ok"} => thrown = {} /\ consoleErrors = <<>>

\* C4 witness: the service call has failed.
C4_Witness ==
    /\ serviceOutcome \in ServiceErrors
    /\ pc = "rejected"
    /\ Len(serviceCalls) = 1

\* C5: the chunk selected for a record is the first in list order with a web or
\* maps title that contains the record's name ignoring case, and none is
\* selected when there is no such chunk.
C5_FirstMatchIgnoringCase ==
    Resolved =>
        /\ DOMAIN matchedChunk = DOMAIN TheResult
        /\ \A i \in DOMAIN TheResult : matchedChunk[i] = FirstChunkFor(TheResult[i].name)

\* C5 witness: the selected chunk matches only when case is ignored, and a
\* later chunk matches too.
C5_Witness ==
    /\ Resolved
    /\ \E i \in DOMAIN TheResult :
           /\ matchedChunk[i] # 0
           /\ ~ChunkMatchesExactly(TheChunks[matchedChunk[i]], TheResult[i].name)
           /\ \E j \in DOMAIN TheChunks :
                  j > matchedChunk[i] /\ TitleOfSourceContains(TheChunks[j], TheResult[i].name)

\* C6 as claimed: no returned name holds an asterisk or begins with a
\* digits-then-period numbering prefix.
C6_AsClaimed ==
    Resolved =>
        \A i \in DOMAIN TheResult :
            /\ "*" \notin Range(TheResult[i].name)
            /\ ~BeginsWithNumbering(TheResult[i].name)

\* C7: the mapUri is the maps URI of the first matching chunk when non-empty,
\* else its web URI when non-empty, else the search link for the name and the
\* coordinate of the query.
C7_MapUriSource ==
    Resolved =>
        \A i \in DOMAIN TheResult :
            LET name == TheResult[i].name
                k == FirstChunkFor(name)
            IN TheResult[i].mapUri =
                   IF k # 0 /\ HasUri(TheChunks[k], "maps") THEN TheChunks[k].maps.uri
                   ELSE IF k # 0 /\ HasUri(TheChunks[k], "web") THEN TheChunks[k].web.uri
                   ELSE MapSearchPrefix \o
                        encodeURIComponent(name \o <<" ">> \o NumToString(args.location.lat)
                                           \o <<",">> \o NumToString(args.location.lng))

\* C7 witness: one record takes the maps URI of a chunk that has both URIs, and
\* another, which no chunk matches, takes the search link.
C7_Witness ==
    /\ Resolved
    /\ args.location = [lat |-> -33, lng |-> 0]
    /\ \E i, j \in DOMAIN TheResult :
           /\ matchedChunk[i] # 0
           /\ HasUri(TheChunks[matchedChunk[i]], "maps")
           /\ HasUri(TheChunks[matchedChunk[i]], "web")
           /\ TheResult[i].mapUri = TheChunks[matchedChunk[i]].maps.uri
           /\ matchedChunk[j] = 0
           /\ TheResult[j].mapUri =
                  MapSearchPrefix \o <<"B", "%", "2", "0", "-", "3", "3", "%", "2", "C", "0">>

(***************************************************************************)
(* The claims about the App component, checked under SpecApp.              *)
(***************************************************************************)
FilterChanged ==
    \/ state'.selectedPrice # state.selectedPrice
    \/ state'.selectedDistance # state.selectedDistance

\* C8 as claimed: a change of the price or distance filter, with a location
\* known and a category selected, issues a call with the new filter values, and
\* a displayed list was always fetched with the filter values now selected.
C8_AsClaimed ==
    /\ [][(FilterChanged /\ state.location # NullLocation /\ state.selectedCategory # Null)
            => \E call \in inflight' \ inflight :
                   /\ call.args.category = state'.selectedCategory
                   /\ call.args.price = state'.selectedPrice
                   /\ call.args.distance = state'.selectedDistance]_vars
    /\ [](state.recommendations # <<>> =>
            \A call \in shownFrom :
                /\ call.args.price = state.selectedPrice
                /\ call.args.distance = state.selectedDistance)

\* C9 as claimed: a displayed list is the result of a call made for the
\* category now selected, and no list is displayed while no category is selected.
C9_AsClaimed ==
    state.recommendations # <<>> =>
        /\ state.selectedCategory # Null
        /\ \A call \in shownFrom : call.args.category = state.selectedCategory

\* C10 as claimed: isLoading holds exactly while a call or a geolocation request
\* of the App is unresolved, and an error message and a non-empty list are never
\* both in the state.
C10_AsClaimed ==
    /\ (inflight # {} \/ geoPending > 0) => state.isLoading
    /\ (inflight = {} /\ geoPending = 0) => ~state.isLoading
    /\ ~(state.error # Null /\ state.recommendations # <<>>)

====
